---- MODULE Spec2Model ----
(***************************************************************************)
(* Model of crypto_data.py: fetch_crypto_data, calculate_metrics,          *)
(* save_to_excel and the script's pipeline (__main__).                     *)
(*                                                                         *)
(* A pandas Series is a sequence (row 1 is the source's row 0).  A float   *)
(* cell is a natural number or NaN; a percentage cell is a record, since   *)
(* a float division can yield NaN, +/-inf or a quotient.                   *)
(***************************************************************************)
EXTENDS Integers, Sequences, FiniteSets, TLC

VARIABLES
    pc,            \* position of the caller: the script, or a direct caller
    crypto_pair,   \* fetch_crypto_data argument: a string, as a sequence of characters
    start_date,    \* fetch_crypto_data argument: a parsed day number, or Malformed
    now,           \* the clock reading fetch_crypto_data took (datetime.now())
    request,       \* the HTTP request fetch_crypto_data sent, if any
    response,      \* what the HTTP exchange produced
    df,            \* the value fetch_crypto_data returned
    propagated,    \* TRUE iff an exception escaped fetch_crypto_data
    data,          \* calculate_metrics argument
    variable1,     \* calculate_metrics argument (look-back W1)
    variable2,     \* calculate_metrics argument (look-forward W2)
    metrics,       \* calculate_metrics outcome: [raised, rows]
    workbook,      \* what save_to_excel left on disk
    calls          \* the functions the script has invoked, in order

vars == <<pc, crypto_pair, start_date, now, request, response, df, propagated,
          data, variable1, variable2, metrics, workbook, calls>>

----------------------------------------------------------------------------
(* Bounds of the model *)

\* longest exhaustively enumerated PriceRow series
MaxLen == 3
\* longest exhaustively enumerated price list the API returns
MaxFree == 2
\* largest window (W1, W2) enumerated for a direct call
MaxW == 3
\* longest patterned price list the API returns (more than 14 + 1 points)
MaxPts == 16
\* longest crypto_pair string
MaxPairLen == 3
\* start dates are days 0..MaxDay since the epoch
MaxDay == 2
\* the day of "now"
NowDay == 15
\* seconds of "now" past midnight are 0..MaxSec
MaxSec == 1

\* prices (and so Open/High/Low/Close cells)
Prices == {0, 1, 2}

----------------------------------------------------------------------------
(* Floats *)

NaN == 0 - 1

Max2(a, b) == IF a >= b THEN a ELSE b
Min2(a, b) == IF a <= b THEN a ELSE b

RECURSIVE SeqMax(_)
SeqMax(q) == IF Len(q) = 1 THEN q[1] ELSE Max2(q[1], SeqMax(Tail(q)))

RECURSIVE SeqMin(_)
SeqMin(q) == IF Len(q) = 1 THEN q[1] ELSE Min2(q[1], SeqMin(Tail(q)))

Reverse(q) == [k \in 1..Len(q) |-> q[Len(q) + 1 - k]]

\* numpy/pandas argmax, argmin: 0-based position of the FIRST extremum
ArgMax(q) == (CHOOSE k \in 1..Len(q) :
                 /\ q[k] = SeqMax(q)
                 /\ \A j \in 1..(k - 1) : q[j] # q[k]) - 1

ArgMin(q) == (CHOOSE k \in 1..Len(q) :
                 /\ q[k] = SeqMin(q)
                 /\ \A j \in 1..(k - 1) : q[j] # q[k]) - 1

\* float division (c - e) / e * 100: never raises; NaN propagates,
\* x/0 is +/-inf and 0/0 is NaN
PctNaN == [kind |-> "nan", num |-> 0, den |-> 0]

PctDiff(c, e) ==
    IF c = NaN \/ e = NaN THEN PctNaN
    ELSE IF e = 0 THEN
        (IF c = 0 THEN PctNaN
         ELSE [kind |-> "inf", num |-> IF c > 0 THEN 1 ELSE 0 - 1, den |-> 0])
    ELSE [kind |-> "num", num |-> 100 * (c - e), den |-> e]

----------------------------------------------------------------------------
(* pandas Series operations *)

\* Series.shift(k): row i takes the value of row i - k, NaN where there is none
Shift(s, k) ==
    [i \in 1..Len(s) |-> IF (i - k) \in 1..Len(s) THEN s[i - k] ELSE NaN]

\* the rows a rolling(window=w) sees at row i: right-anchored at i
Window(s, w, i) == SubSeq(s, Max2(1, i - w + 1), i)

Valid(win) == SelectSeq(win, LAMBDA x : x # NaN)

\* rolling(window=w, min_periods=minp).max()
RollingMax(s, w, minp) ==
    [i \in 1..Len(s) |->
        LET v == Valid(Window(s, w, i))
        IN  IF Len(v) < minp \/ Len(v) = 0 THEN NaN ELSE SeqMax(v)]

\* rolling(window=w, min_periods=minp).min()
RollingMin(s, w, minp) ==
    [i \in 1..Len(s) |->
        LET v == Valid(Window(s, w, i))
        IN  IF Len(v) < minp \/ Len(v) = 0 THEN NaN ELSE SeqMin(v)]

\* rolling(window=w, min_periods=minp).apply(f): the window handed to f at each
\* row, empty where too few cells are present and the result is NaN
RollingWindows(s, w, minp) ==
    [i \in 1..Len(s) |->
        LET win == Window(s, w, i)
        IN  IF Len(Valid(win)) < minp \/ Len(Valid(win)) = 0 THEN << >> ELSE win]

\* Series.astype(int) raises on a NaN cell
AsTypeIntRaises(s) == \E i \in 1..Len(s) : s[i] = NaN

Col(rows, name) == [i \in 1..Len(rows) |-> rows[i][name]]

----------------------------------------------------------------------------
(* calculate_metrics *)

\* the look-back window one row too wide
High_Last_wide(d, W1) == RollingMax(Col(d, "High"), W1 + 1, 1)

\* data['High'].rolling(window=variable1, min_periods=1).max()
High_Last(d, W1) == RollingMax(Col(d, "High"), W1, 1)

\* data['Low'].rolling(window=variable1, min_periods=1).min()
Low_Last(d, W1) == RollingMin(Col(d, "Low"), W1, 1)

\* the lambda without its "- 1"
LambdaHigh_len(x) == Len(x) - ArgMax(Reverse(x))

\* lambda x: len(x) - 1 - x[::-1].argmax()
LambdaHigh(x) == Len(x) - 1 - ArgMax(Reverse(x))

\* lambda x: len(x) - 1 - x[::-1].argmin()
LambdaLow(x) == Len(x) - 1 - ArgMin(Reverse(x))

\* min_periods left at its default, the window
Days_Since_High_minp(d, W1) ==
    LET wins == RollingWindows(Col(d, "High"), W1, W1)
    IN  [i \in 1..Len(d) |-> IF wins[i] = << >> THEN NaN ELSE LambdaHigh(wins[i])]

\* the column before .astype(int)
Days_Since_High(d, W1) ==
    LET wins == RollingWindows(Col(d, "High"), W1, 1)
    IN  [i \in 1..Len(d) |-> IF wins[i] = << >> THEN NaN ELSE LambdaHigh(wins[i])]

Days_Since_Low(d, W1) ==
    LET wins == RollingWindows(Col(d, "Low"), W1, 1)
    IN  [i \in 1..Len(d) |-> IF wins[i] = << >> THEN NaN ELSE LambdaLow(wins[i])]

\* min_periods left at its default, the window
High_Next_minp(d, W2) == RollingMax(Shift(Col(d, "High"), 0 - W2), W2, W2)

\* data['High'].shift(-variable2).rolling(window=variable2, min_periods=1).max()
High_Next(d, W2) == RollingMax(Shift(Col(d, "High"), 0 - W2), W2, 1)

\* data['Low'].shift(-variable2).rolling(window=variable2, min_periods=1).min()
Low_Next(d, W2) == RollingMin(Shift(Col(d, "Low"), 0 - W2), W2, 1)

\* a NaN cell in any column of a metrics row
RowHasNaN(r) ==
    \/ \E f \in {"Open", "High", "Low", "Close", "High_Last", "Low_Last",
                 "Days_Since_High", "Days_Since_Low", "High_Next", "Low_Next"} :
          r[f] = NaN
    \/ \E f \in {"Pct_High_Last", "Pct_Low_Last", "Pct_High_Next", "Pct_Low_Next"} :
          r[f].kind = "nan"

\* return data.dropna()
Return_dropna(rows) == SelectSeq(rows, LAMBDA r : ~RowHasNaN(r))

\* return data
Return(rows) == rows

calculate_metrics(d, W1, W2) ==
    LET hl  == High_Last(d, W1)
        ll  == Low_Last(d, W1)
        dsh == Days_Since_High(d, W1)
        dsl == Days_Since_Low(d, W1)
        hn  == High_Next(d, W2)
        ln  == Low_Next(d, W2)
    IN  IF AsTypeIntRaises(dsh) \/ AsTypeIntRaises(dsl)
        THEN [raised |-> TRUE, rows |-> << >>]
        ELSE [raised |-> FALSE,
              rows |-> Return(
                [i \in 1..Len(d) |->
                  [Date            |-> d[i].Date,
                   Open            |-> d[i].Open,
                   High            |-> d[i].High,
                   Low             |-> d[i].Low,
                   Close           |-> d[i].Close,
                   High_Last       |-> hl[i],
                   Low_Last        |-> ll[i],
                   Days_Since_High |-> dsh[i],
                   Days_Since_Low  |-> dsl[i],
                   High_Next       |-> hn[i],
                   Low_Next        |-> ln[i],
                   Pct_High_Last   |-> PctDiff(d[i].Close, hl[i]),
                   Pct_Low_Last    |-> PctDiff(d[i].Close, ll[i]),
                   Pct_High_Next   |-> PctDiff(d[i].Close, hn[i]),
                   Pct_Low_Next    |-> PctDiff(d[i].Close, ln[i])]])]

----------------------------------------------------------------------------
(* fetch_crypto_data *)

Malformed == 0 - 1

SecondsPerDay == 86400
\* max_days = 14 * 86400
max_days == 14 * SecondsPerDay
\* .tail(14)
TailRows == 14

\* str.lower()
Lower(s) == [k \in 1..Len(s) |-> IF s[k] = "B" THEN "b" ELSE s[k]]

\* str.split('/'): the parts between the separators
RECURSIVE SplitFrom(_, _, _)
SplitFrom(s, k, cur) ==
    IF k > Len(s) THEN << cur >>
    ELSE IF s[k] = "/" THEN << cur >> \o SplitFrom(s, k + 1, << >>)
    ELSE SplitFrom(s, k + 1, Append(cur, s[k]))

Split(s) == SplitFrom(s, 1, << >>)

\* int(datetime.strptime(start_date, "%Y-%m-%d").timestamp())
Timestamp(day) == day * SecondsPerDay

\* the start left as requested
ClipStart_none(start_ts, to_ts) == start_ts

\* if (to_date_ts - start_date_ts) > max_days: start_date_ts = to_date_ts - max_days
ClipStart(start_ts, to_ts) ==
    IF (to_ts - start_ts) > max_days THEN to_ts - max_days ELSE start_ts

\* pd.to_datetime(ms, unit='ms')
ToDatetime(ts) == [sec |-> ts \div 1000, msec |-> ts % 1000]

\* df['Close'].shift(1)
OpenColumn(close) == Shift(close, 1)

\* a window of 3 rows, at least 2 of them present
HighColumn_w3(close) == RollingMax(close, 3, 2)

\* df['Close'].rolling(window=2).max(): min_periods defaults to the window
HighColumn(close) == RollingMax(close, 2, 2)

\* df['Close'].rolling(window=2).min()
LowColumn(close) == RollingMin(close, 2, 2)

\* DataFrame.dropna(): the Date column never holds a null here
DropNa(rows) ==
    SelectSeq(rows, LAMBDA r : r.Open # NaN /\ r.High # NaN
                               /\ r.Low # NaN /\ r.Close # NaN)

\* DataFrame.tail(n)
TailN(rows, n) == SubSeq(rows, Max2(1, Len(rows) - n + 1), Len(rows))

\* lines 44-50: the table built from the response's prices array
BuildTable(prices) ==
    LET close == [k \in 1..Len(prices) |-> prices[k].price]
        open  == OpenColumn(close)
        high  == HighColumn(close)
        low   == LowColumn(close)
        full  == [k \in 1..Len(prices) |->
                    [Date  |-> ToDatetime(prices[k].ts),
                     Open  |-> open[k],
                     High  |-> high[k],
                     Low   |-> low[k],
                     Close |-> close[k]]]
    IN  TailN(DropNa(full), TailRows)

NoRequest == [sent |-> FALSE, crypto_id |-> << >>, vs_currency |-> << >>,
              from |-> 0, to |-> 0]

\* the exception, if any, raised inside the try block
Raised(pair, date, resp) ==
    IF Len(Split(Lower(pair))) # 2 THEN "ValueError"
    ELSE IF date = Malformed THEN "ValueError"
    ELSE IF resp.kind = "ok" THEN "none"
    ELSE resp.kind

\* only the first except clause
Caught_http_only(exc) == exc = "HTTPError"

\* except requests.exceptions.HTTPError / except Exception
Caught(exc) == exc \in {"HTTPError", "ValueError", "ConnectionError",
                        "JSONDecodeError", "KeyError"}

\* the request built at lines 24-39, once both arguments parsed
RequestOf(pair, date, t) ==
    IF Len(Split(Lower(pair))) # 2 \/ date = Malformed THEN NoRequest
    ELSE [sent        |-> TRUE,
          crypto_id   |-> Split(Lower(pair))[1],
          vs_currency |-> Split(Lower(pair))[2],
          from        |-> ClipStart(Timestamp(date), t),
          to          |-> t]

\* the whole function: [df, request, propagated]
fetch_crypto_data(pair, date, t, resp) ==
    LET exc == Raised(pair, date, resp)
    IN  [df         |-> IF exc = "none" THEN BuildTable(resp.prices) ELSE << >>,
         request    |-> RequestOf(pair, date, t),
         propagated |-> exc # "none" /\ ~Caught(exc)]

----------------------------------------------------------------------------
(* save_to_excel and the script *)

\* with pd.ExcelWriter(...) ... except Exception: the failure is printed
save_to_excel(rows, io_ok) ==
    IF io_ok THEN [written |-> TRUE, rows |-> rows]
    ELSE [written |-> FALSE, rows |-> << >>]

\* df.empty
DfEmpty(d) == Len(d) = 0

\* calculate_metrics(df, variable1=7, variable2=5)
DefaultW1 == 7
DefaultW2 == 5

----------------------------------------------------------------------------
(* Inputs *)

Chars == {"B", "/"}
Pairs == UNION {[1..m -> Chars] : m \in 0..MaxPairLen}

StartDates == (0..MaxDay) \cup {NowDay + 1} \cup {Malformed}

Nows == {NowDay * SecondsPerDay + s : s \in 0..MaxSec}

\* the API's [timestamp_ms, price] pairs, one per hour
Points(ps) == [k \in 1..Len(ps) |-> [ts |-> k * 3600000, price |-> ps[k]]]

FreePrices == UNION {[1..m -> Prices] : m \in 0..MaxFree}

\* longer price lists: rising (a = 1) and falling (a = 2) saw-teeth
PatternPrices ==
    {[k \in 1..m |-> (a * k + b) % 3] :
        a \in 1..2, b \in 0..2, m \in (MaxFree + 1)..MaxPts}

NoResponse == [kind |-> "none", prices |-> << >>]

Responses ==
    {[kind |-> "ok", prices |-> Points(ps)] : ps \in FreePrices \cup PatternPrices}
    \cup {[kind |-> k, prices |-> << >>] :
            k \in {"ConnectionError", "HTTPError", "JSONDecodeError", "KeyError"}}

\* a PriceRow whose High/Low are the larger/smaller of its Open and Close
PriceRowOf(k, o, c) ==
    [Date  |-> ToDatetime(k * 3600000),
     Open  |-> o,
     High  |-> Max2(o, c),
     Low   |-> Min2(o, c),
     Close |-> c]

SmallSeries ==
    UNION {{[k \in 1..m |-> PriceRowOf(k, oc[k][1], oc[k][2])] :
               oc \in [1..m -> Prices \X Prices]} : m \in 1..MaxLen}

LongSeries == {BuildTable(Points(ps)) : ps \in PatternPrices}

NoMetrics == [raised |-> FALSE, rows |-> << >>]
NoWorkbook == [written |-> FALSE, rows |-> << >>]

----------------------------------------------------------------------------
(* The script: lines 112-120 *)

Init ==
    /\ pc = "main"
    /\ crypto_pair \in Pairs
    /\ start_date \in StartDates
    /\ now = 0
    /\ request = NoRequest
    /\ response = NoResponse
    /\ df = << >>
    /\ propagated = FALSE
    /\ data = << >>
    /\ variable1 = DefaultW1
    /\ variable2 = DefaultW2
    /\ metrics = NoMetrics
    /\ workbook = NoWorkbook
    /\ calls = << >>

\* df = fetch_crypto_data(crypto_pair, start_date)
MainFetch ==
    /\ pc = "main"
    /\ \E t \in Nows, resp \in Responses :
          LET r == fetch_crypto_data(crypto_pair, start_date, t, resp)
          IN  /\ now' = IF r.request.sent THEN t ELSE now
              /\ df' = r.df
              /\ request' = r.request
              /\ response' = IF r.request.sent THEN resp ELSE NoResponse
              /\ propagated' = r.propagated
              /\ pc' = IF r.propagated THEN "crashed" ELSE "fetched"
    /\ calls' = Append(calls, "fetch_crypto_data")
    /\ UNCHANGED <<crypto_pair, start_date, data, variable1, variable2,
                   metrics, workbook>>

\* if not df.empty: metrics_df = calculate_metrics(df, variable1=7, variable2=5)
MainMetrics ==
    /\ pc = "fetched"
    /\ ~DfEmpty(df)
    /\ data' = df
    /\ variable1' = DefaultW1
    /\ variable2' = DefaultW2
    /\ metrics' = calculate_metrics(df, DefaultW1, DefaultW2)
    /\ pc' = IF metrics'.raised THEN "crashed" ELSE "computed"
    /\ calls' = Append(calls, "calculate_metrics")
    /\ UNCHANGED <<crypto_pair, start_date, now, request, response, df, propagated,
                   workbook>>

\* save_to_excel(metrics_df, filename=...)
MainSave ==
    /\ pc = "computed"
    /\ \E io_ok \in BOOLEAN : workbook' = save_to_excel(metrics.rows, io_ok)
    /\ pc' = "done"
    /\ calls' = Append(calls, "save_to_excel")
    /\ UNCHANGED <<crypto_pair, start_date, now, request, response, df, propagated,
                   data, variable1, variable2, metrics>>

\* df.empty: the script ends
MainSkip ==
    /\ pc = "fetched"
    /\ DfEmpty(df)
    /\ pc' = "done"
    /\ UNCHANGED <<crypto_pair, start_date, now, request, response, df, propagated,
                   data, variable1, variable2, metrics, workbook, calls>>

Next == MainFetch \/ MainMetrics \/ MainSave \/ MainSkip

Spec == Init /\ [][Next]_vars

----------------------------------------------------------------------------
(* calculate_metrics called directly on a PriceRow series *)

InitCall ==
    /\ pc = "call"
    /\ \/ /\ data \in SmallSeries
          /\ variable1 \in 1..MaxW
          /\ variable2 \in 1..MaxW
       \/ /\ data \in LongSeries
          /\ variable1 = DefaultW1
          /\ variable2 = DefaultW2
    /\ crypto_pair = << >>
    /\ start_date = Malformed
    /\ now = 0
    /\ request = NoRequest
    /\ response = NoResponse
    /\ df = << >>
    /\ propagated = FALSE
    /\ metrics = NoMetrics
    /\ workbook = NoWorkbook
    /\ calls = << >>

CallMetrics ==
    /\ pc = "call"
    /\ metrics' = calculate_metrics(data, variable1, variable2)
    /\ pc' = "returned"
    /\ UNCHANGED <<crypto_pair, start_date, now, request, response, df, propagated,
                   data, variable1, variable2, workbook, calls>>

NextCall == CallMetrics

SpecMetrics == InitCall /\ [][NextCall]_vars

----------------------------------------------------------------------------
(* What the claims speak of *)

SetMax(S) == CHOOSE x \in S : \A y \in S : y <= x
SetMin(S) == CHOOSE x \in S : \A y \in S : x <= y

\* calculate_metrics has returned normally to a direct caller
Returned == pc = "returned" /\ ~metrics.raised /\ Len(metrics.rows) = Len(data)

\* rows [max(0, i-W1+1), i] of the claim, for row p = i + 1
TrailingRows(p) == Max2(1, p - variable1 + 1)..p

\* rows [i+1, min(i+W2, n-1)] of the claim, for row p = i + 1
ForwardRows(p) == (p + 1)..Min2(p + variable2, Len(data))

\* the final W2 rows of the series
FinalRows == {p \in 1..Len(data) : p > Len(data) - variable2}

TrueMaxHigh(rows) == SetMax({data[j].High : j \in rows})
TrueMinLow(rows) == SetMin({data[j].Low : j \in rows})

\* the most recent row of the trailing window holding the window's extremum
LatestHigh(p) ==
    SetMax({j \in TrailingRows(p) : data[j].High = TrueMaxHigh(TrailingRows(p))})
LatestLow(p) ==
    SetMax({j \in TrailingRows(p) : data[j].Low = TrueMinLow(TrailingRows(p))})

----------------------------------------------------------------------------
(* C1: Days_Since_High/Low_Last_W1_Days[i] is the backward distance from   *)
(* row i to the most recent row of the trailing window that holds the      *)
(* window's maximum High / minimum Low (0 when row i holds it).            *)
Claim_C1_DaysSinceIsBackwardDistance ==
    Returned =>
        \A p \in 1..Len(data) :
            /\ metrics.rows[p].Days_Since_High = p - LatestHigh(p)
            /\ metrics.rows[p].Days_Since_Low = p - LatestLow(p)

(* C2: High_Next_W2_Days[i] is the maximum High and Low_Next_W2_Days[i]    *)
(* the minimum Low over rows [i+1, min(i+W2, n-1)], and the field is       *)
(* undefined iff no row follows row i.                                     *)
Claim_C2_ForwardWindow ==
    Returned =>
        \A p \in 1..Len(data) :
            IF ForwardRows(p) = {}
            THEN /\ metrics.rows[p].High_Next = NaN
                 /\ metrics.rows[p].Low_Next = NaN
            ELSE /\ metrics.rows[p].High_Next = TrueMaxHigh(ForwardRows(p))
                 /\ metrics.rows[p].Low_Next = TrueMinLow(ForwardRows(p))

(* C3 as stated, for the forward extrema themselves: High_Next_W2_Days and *)
(* Low_Next_W2_Days are undefined in exactly the final W2 rows and defined *)
(* in every earlier row.                                                   *)
Claim_C3_UndefinedInFinalW2Rows ==
    Returned =>
        \A p \in 1..Len(data) :
            /\ (metrics.rows[p].High_Next = NaN) <=> (p \in FinalRows)
            /\ (metrics.rows[p].Low_Next = NaN) <=> (p \in FinalRows)

(* C3 amended: the forward extrema are undefined in the final row, in      *)
(* every row when the series has at most W2 rows, and in no other row; the *)
(* percentage deviations are undefined in those rows and defined in every  *)
(* other row whose extremum is non-zero.                                   *)
Thm_C3_UndefinedInLastRowOnly ==
    Returned =>
        \A p \in 1..Len(data) :
            LET r == metrics.rows[p]
                undef == p = Len(data) \/ Len(data) <= variable2
            IN  /\ (r.High_Next = NaN) <=> undef
                /\ (r.Low_Next = NaN) <=> undef
                /\ undef => r.Pct_High_Next.kind = "nan" /\ r.Pct_Low_Next.kind = "nan"
                /\ (~undef /\ r.High_Next # 0) => r.Pct_High_Next.kind # "nan"
                /\ (~undef /\ r.Low_Next # 0) => r.Pct_Low_Next.kind # "nan"

\* the 14-row series with W1 = 7, W2 = 5: only the last row is undefined
Wit_C3_FourteenRows ==
    /\ Returned
    /\ Len(data) = 14 /\ variable1 = 7 /\ variable2 = 5
    /\ metrics.rows[14].High_Next = NaN
    /\ \A p \in 10..13 : metrics.rows[p].High_Next # NaN /\ metrics.rows[p].Low_Next # NaN

(* C4: High_Last_W1_Days[i] is the true maximum High and                   *)
(* Low_Last_W1_Days[i] the true minimum Low over rows [max(0, i-W1+1), i], *)
(* defined from the first row on.                                          *)
Thm_C4_TrailingExtrema ==
    Returned =>
        \A p \in 1..Len(data) :
            /\ metrics.rows[p].High_Last = TrueMaxHigh(TrailingRows(p))
            /\ metrics.rows[p].Low_Last = TrueMinLow(TrailingRows(p))
            /\ metrics.rows[p].High_Last # NaN
            /\ metrics.rows[p].Low_Last # NaN

\* a full window that has slid past a larger High, and a later row that is larger still
Wit_C4_WindowSlides ==
    /\ Returned
    /\ \E p \in 1..Len(data) :
          /\ p > variable1
          /\ p < Len(data)
          /\ metrics.rows[p].High_Last < data[p - variable1].High
          /\ metrics.rows[p].High_Last < data[p + 1].High
          /\ metrics.rows[p].Low_Last > data[p - variable1].Low

(* C5: Days_Since_High/Low_Last_W1_Days[i] lies in [0, min(i, W1-1)].      *)
Thm_C5_DaysSinceRange ==
    Returned =>
        \A p \in 1..Len(data) :
            /\ metrics.rows[p].Days_Since_High \in 0..Min2(p - 1, variable1 - 1)
            /\ metrics.rows[p].Days_Since_Low \in 0..Min2(p - 1, variable1 - 1)

\* both ends of the range are taken, in a clamped and in a full window
Wit_C5_RangeEnds ==
    /\ Returned
    /\ variable1 >= 2
    /\ Len(data) > variable1
    /\ metrics.rows[1].Days_Since_High = 0
    /\ metrics.rows[2].Days_Since_High = 1
    /\ metrics.rows[Len(data)].Days_Since_High = variable1 - 1
    /\ metrics.rows[Len(data)].Days_Since_Low = 0

(* C6: calculate_metrics returns as many rows as it was given, in the same *)
(* order, with Date, Open, High, Low and Close unchanged; no row is        *)
(* dropped, undefined forward-looking fields or not.                       *)
Thm_C6_RowsKept ==
    pc = "returned" =>
        /\ Len(metrics.rows) = Len(data)
        /\ \A p \in 1..Len(metrics.rows) :
              /\ metrics.rows[p].Date = data[p].Date
              /\ metrics.rows[p].Open = data[p].Open
              /\ metrics.rows[p].High = data[p].High
              /\ metrics.rows[p].Low = data[p].Low
              /\ metrics.rows[p].Close = data[p].Close

\* a series of several rows, some of them with undefined forward-looking fields
Wit_C6_UndefinedRowsKept ==
    /\ Returned
    /\ Len(data) >= 3
    /\ metrics.rows[Len(data)].High_Next = NaN
    /\ metrics.rows[1].High_Next # NaN
    /\ data[1].Close # data[2].Close

(* C7: calculate_metrics does not raise; where a forward extremum is       *)
(* undefined its percentage deviation is undefined, and where the extremum *)
(* is defined and non-zero the percentage deviation is defined.            *)
Thm_C7_NoRaise ==
    pc = "returned" =>
        /\ ~metrics.raised
        /\ Len(metrics.rows) = Len(data)
        /\ \A p \in 1..Len(metrics.rows) :
              LET r == metrics.rows[p]
              IN  /\ r.High_Next = NaN => r.Pct_High_Next.kind = "nan"
                  /\ r.Low_Next = NaN => r.Pct_Low_Next.kind = "nan"
                  /\ r.High_Next \notin {NaN, 0} => r.Pct_High_Next.kind = "num"
                  /\ r.Low_Next \notin {NaN, 0} => r.Pct_Low_Next.kind = "num"

\* one series with an undefined, a zero and a non-zero forward extremum
Wit_C7_AllThreeCases ==
    /\ Returned
    /\ \E p, q, u \in 1..Len(data) :
          /\ metrics.rows[p].High_Next = NaN
          /\ metrics.rows[q].Low_Next = 0
          /\ metrics.rows[u].High_Next > 0
          /\ metrics.rows[u].Pct_High_Next.kind = "num"

----------------------------------------------------------------------------
\* the conditions under which fetch_crypto_data has no data to return
FetchFailed ==
    \/ Len(Split(Lower(crypto_pair))) # 2
    \/ start_date = Malformed
    \/ response.kind \in {"ConnectionError", "HTTPError", "JSONDecodeError", "KeyError"}

(* C8: fetch_crypto_data never propagates an exception and returns an      *)
(* empty table on an HTTP error, a connection failure, a malformed pair or *)
(* date, or a response without a usable prices array; the script ends      *)
(* without calling calculate_metrics or save_to_excel on an empty result,  *)
(* and calls calculate_metrics and then save_to_excel on a non-empty one.  *)
Thm_C8_FetchNeverPropagates ==
    /\ ~propagated
    /\ pc # "crashed"
    /\ (pc # "main" /\ FetchFailed) => df = << >>
    /\ pc = "main" => calls = << >>
    /\ pc = "fetched" => calls = << "fetch_crypto_data" >>
    /\ pc = "computed" =>
          /\ ~DfEmpty(df)
          /\ calls = << "fetch_crypto_data", "calculate_metrics" >>
    /\ pc = "done" =>
          IF DfEmpty(df)
          THEN calls = << "fetch_crypto_data" >>
          ELSE calls = << "fetch_crypto_data", "calculate_metrics", "save_to_excel" >>

\* the run that ended after an HTTP error status
Wit_C8_HttpErrorEndsRun ==
    /\ pc = "done"
    /\ response.kind = "HTTPError"
    /\ df = << >>
    /\ calls = << "fetch_crypto_data" >>

(* C9: the requested range ends at the current time and spans at most 14   *)
(* days: a start more than 14 days back is replaced by now minus 14 days,  *)
(* any other start is requested as given; at most 14 rows are returned.    *)
Thm_C9_RangeClipped ==
    /\ Len(df) <= 14
    /\ request.sent =>
          /\ request.to = now
          /\ request.to - request.from <= 14 * 86400
          /\ IF now - start_date * 86400 > 14 * 86400
             THEN request.from = now - 14 * 86400
             ELSE request.from = start_date * 86400

\* a start more than 14 days back, and a response of more than 15 points
Wit_C9_ClippedAndCut ==
    /\ request.sent
    /\ now - start_date * 86400 > 14 * 86400
    /\ request.from = now - 14 * 86400
    /\ Len(response.prices) > 15
    /\ Len(df) = 14

(* C10: each returned row has Open = the preceding fetched point's Close,  *)
(* High / Low = the larger / smaller of that Close and its own, so         *)
(* Low <= Open, Close <= High; the first fetched point is in no row.       *)
Thm_C10_SynthesisedRows ==
    (pc # "main" /\ ~FetchFailed) =>
        LET pts == response.prices
            off == Len(pts) - Len(df)
        IN  /\ off >= 1 \/ Len(pts) = 0
            /\ \A p \in 1..Len(df) :
                  LET k == off + p
                  IN  /\ k >= 2
                      /\ df[p].Date = ToDatetime(pts[k].ts)
                      /\ df[p].Close = pts[k].price
                      /\ df[p].Open = pts[k - 1].price
                      /\ df[p].High = Max2(pts[k - 1].price, pts[k].price)
                      /\ df[p].Low = Min2(pts[k - 1].price, pts[k].price)
                      /\ df[p].Low <= df[p].Close /\ df[p].Close <= df[p].High
                      /\ df[p].Low <= df[p].Open /\ df[p].Open <= df[p].High
                      /\ df[p].Date # ToDatetime(pts[1].ts)

\* a table of 14 rows cut from 16 points, its first row rising and a later one falling
Wit_C10_FullTable ==
    /\ pc = "fetched"
    /\ Len(response.prices) = 16
    /\ Len(df) = 14
    /\ df[1].Open < df[1].Close
    /\ \E p \in 2..14 : df[p].Open > df[p].Close

====
